---- MODULE Spec2Model ----
(***************************************************************************)
(* Model of lang/syn/src/idl/file.rs: extraction of an IDL document from a *)
(* tree of annotated declarations (parse and its helpers).                 *)
(*                                                                         *)
(* Text is a sequence of one-character strings, so that the string         *)
(* operations of the source (contains, replace, strip_prefix, retain,      *)
(* cmp) are computed as the source computes them.                          *)
(***************************************************************************)
EXTENDS Naturals, Integers, Sequences, FiniteSets, TLC

\* ------------------------------------------------------------------------
\* Bounds of the explored inputs
\* ------------------------------------------------------------------------
MaxTyDepth == 2
MaxConsts == 2
MaxStructs == 2
MaxEnums == 2
MaxMods == 2
MaxIxs == 2
MaxAccFields == 2

\* ------------------------------------------------------------------------
\* Constants of the source
\* ------------------------------------------------------------------------
DERIVE_NAME == "Accounts"
ERROR_CODE_OFFSET == 6000

\* ------------------------------------------------------------------------
\* Text
\* ------------------------------------------------------------------------
\* The characters used, in byte order (String::cmp compares bytes).
UpperSeq ==
  << "A", "B", "C", "D", "E", "F", "G", "H", "I", "J", "K", "L", "M", "N",
     "O", "P", "Q", "R", "S", "T", "U", "V", "W", "X", "Y", "Z" >>
LowerSeq ==
  << "a", "b", "c", "d", "e", "f", "g", "h", "i", "j", "k", "l", "m", "n",
     "o", "p", "q", "r", "s", "t", "u", "v", "w", "x", "y", "z" >>
Chars ==
  << " ", "(", ")", "0", "1", "2", "3", "4", "5", "6", "7", "8", "9", ";",
     "<", ">" >> \o UpperSeq \o << "[", "]", "_" >> \o LowerSeq

CharOrd(c) == CHOOSE i \in 1..Len(Chars) : Chars[i] = c

Digits == {"0", "1", "2", "3", "4", "5", "6", "7", "8", "9"}
UpperChars == {UpperSeq[i] : i \in 1..Len(UpperSeq)}
LowerChars == {LowerSeq[i] : i \in 1..Len(LowerSeq)}

to_uppercase(c) ==
  IF c \in LowerChars
  THEN UpperSeq[CHOOSE i \in 1..Len(LowerSeq) : LowerSeq[i] = c] ELSE c
to_lowercase(c) ==
  IF c \in UpperChars
  THEN LowerSeq[CHOOSE i \in 1..Len(UpperSeq) : UpperSeq[i] = c] ELSE c

Min(a, b) == IF a < b THEN a ELSE b

\* a.cmp(&b) == Less for strings: bytewise lexicographic order.
StrLess(a, b) ==
  \/ \E i \in 1..Min(Len(a), Len(b)) :
        /\ \A j \in 1..(i - 1) : a[j] = b[j]
        /\ CharOrd(a[i]) < CharOrd(b[i])
  \/ /\ Len(a) < Len(b)
     /\ \A j \in 1..Len(a) : a[j] = b[j]

StrLeq(a, b) == a = b \/ StrLess(a, b)

starts_with(s, pre) == Len(pre) <= Len(s) /\ SubSeq(s, 1, Len(pre)) = pre
ends_with(s, suf) ==
  Len(suf) <= Len(s) /\ SubSeq(s, Len(s) - Len(suf) + 1, Len(s)) = suf

\* str::contains(pat)
contains(s, pat) ==
  \E i \in 0..(Len(s) - Len(pat)) : SubSeq(s, i + 1, i + Len(pat)) = pat

\* str::replace(from, to): every non-overlapping match, left to right.
RECURSIVE replace(_, _, _)
replace(s, from, to) ==
  IF Len(s) < Len(from) \/ Len(from) = 0 THEN s
  ELSE IF starts_with(s, from)
       THEN to \o replace(SubSeq(s, Len(from) + 1, Len(s)), from, to)
       ELSE <<s[1]>> \o replace(Tail(s), from, to)

\* String::retain(|c| !c.is_whitespace())
retain_non_whitespace(s) == SelectSeq(s, LAMBDA c : c # " ")

\* strip_prefix / strip_suffix; None is modelled by the flag ok.
strip_prefix(s, pre) ==
  IF starts_with(s, pre)
  THEN [ok |-> TRUE, s |-> SubSeq(s, Len(pre) + 1, Len(s))]
  ELSE [ok |-> FALSE, s |-> s]
strip_suffix(s, suf) ==
  IF ends_with(s, suf)
  THEN [ok |-> TRUE, s |-> SubSeq(s, 1, Len(s) - Len(suf))]
  ELSE [ok |-> FALSE, s |-> s]

\* ------------------------------------------------------------------------
\* Type expressions (syn::Type) and their token text
\* ------------------------------------------------------------------------
TPath(name) == [k |-> "path", name |-> name]
TUnit == [k |-> "unit"]
TBox(t) == [k |-> "box", inner |-> t]
TArray(e, l) == [k |-> "array", elem |-> e, len |-> l]
LenLit(text) == [k |-> "lit", text |-> text]
LenName(name) == [k |-> "name", text |-> name]
LenCast(name) == [k |-> "cast", text |-> name]

LenText(l) ==
  IF l.k = "cast" THEN l.text \o <<" ", "a", "s", " ", "u", "s", "i", "z", "e">>
  ELSE l.text

\* parser::tts_to_string: the tokens of the expression separated by single
\* blanks, a bracket group hugging its content.
RECURSIVE tts_to_string(_)
tts_to_string(t) ==
  CASE t.k = "path" -> t.name
    [] t.k = "unit" -> <<"(", ")">>
    [] t.k = "box" ->
         <<"B", "o", "x", " ", "<", " ">> \o tts_to_string(t.inner) \o <<" ", ">">>
    [] t.k = "array" ->
         <<"[">> \o tts_to_string(t.elem) \o <<" ", ";", " ">> \o LenText(t.len)
                 \o <<"]">>

\* ------------------------------------------------------------------------
\* Constants of the tree (syn::ItemConst) and the canonical type resolver
\* ------------------------------------------------------------------------
\* The integer type names accepted by the filter of
\* resolve_variable_array_lengths.
IntegerTypeNames ==
  { <<"u", "s", "i", "z", "e">>, <<"u", "8">>, <<"u", "1", "6">>,
    <<"u", "3", "2">>, <<"u", "6", "4">>, <<"u", "1", "2", "8">>,
    <<"i", "s", "i", "z", "e">>, <<"i", "8">>, <<"i", "1", "6">>,
    <<"i", "3", "2">>, <<"i", "6", "4">>, <<"i", "1", "2", "8">> }

IsIntegerConst(c) == c.ty.k = "path" /\ c.ty.name \in IntegerTypeNames

\* How a computation ended: normally, with a returned Err, or with a panic.
\* args are the symbols formatted into the message.
NoPanic == [kind |-> "ok", msg |-> "", args |-> <<>>]
Panic(msg, args) == [kind |-> "panic", msg |-> msg, args |-> args]
Err(msg, args) == [kind |-> "err", msg |-> msg, args |-> args]
Failed(e) == e.kind # "ok"

\* The ambiguity test with the comparison of the values inverted.
AmbiguousConst_same_value(consts, constant) ==
  \E j \in 1..Len(consts) :
     /\ consts[j] # constant
     /\ consts[j].ident = constant.ident
     /\ consts[j].ty = constant.ty
     /\ consts[j].expr = constant.expr

\* The ambiguity test of resolve_variable_array_lengths: another constant
\* of the tree with the same name and type and a different value.
AmbiguousConst(consts, constant) ==
  \E j \in 1..Len(consts) :
     /\ consts[j] # constant
     /\ consts[j].ident = constant.ident
     /\ consts[j].ty = constant.ty
     /\ consts[j].expr # constant.expr

\* The loop of resolve_variable_array_lengths from the i-th constant on.
RECURSIVE resolve_from(_, _, _)
resolve_from(consts, i, tts_string) ==
  IF i > Len(consts) THEN [err |-> NoPanic, s |-> tts_string]
  ELSE
    LET constant == consts[i]
        \* "Check for something to replace"
        found(check_string, size_string, cast_size_string) ==
          IF contains(check_string, cast_size_string) THEN <<cast_size_string>>
          ELSE IF contains(check_string, size_string) THEN <<size_string>>
          ELSE <<>>
        body(check_string, replacement_string) ==
          IF ~IsIntegerConst(constant) \/ replacement_string = <<>>
          THEN resolve_from(consts, i + 1, tts_string)
          ELSE IF AmbiguousConst(consts, constant)
          THEN [err |-> Panic("Crate wide unique name required for array size const.",
                               <<>>),
                s |-> tts_string]
          ELSE resolve_from(consts, i + 1,
                            replace(check_string, replacement_string[1],
                                    constant.expr \o <<"]">>))
        matched(check_string) ==
          body(check_string,
               found(check_string, constant.ident \o <<"]">>,
                     constant.ident \o <<"a", "s", "u", "s", "i", "z", "e", "]">>))
    IN matched(retain_non_whitespace(tts_string))

resolve_variable_array_lengths(consts, tts_string) ==
  resolve_from(consts, 1, tts_string)

\* IdlType values produced by the text parser.
IdlPrim(name) == [k |-> "prim", name |-> name]
IdlDefined(name) == [k |-> "defined", name |-> name]
IdlArray(elem, len) == [k |-> "array", elem |-> elem, len |-> len]
IdlErr == [k |-> "err"]

PrimitiveNames ==
  { <<"b", "o", "o", "l">>, <<"u", "8">>, <<"u", "1", "6">>, <<"u", "3", "2">>,
    <<"u", "6", "4">>, <<"S", "t", "r", "i", "n", "g">> }

IsIdentText(s) ==
  /\ Len(s) > 0
  /\ \A i \in 1..Len(s) : s[i] \in UpperChars \cup LowerChars \cup Digits \cup {"_"}
  /\ s[1] \notin Digits

IsLiteralInt(s) == Len(s) > 0 /\ \A i \in 1..Len(s) : s[i] \in Digits

\* Position of the last ';' of s, 0 when there is none.
LastSemi(s) ==
  IF \E i \in 1..Len(s) : s[i] = ";"
  THEN CHOOSE i \in 1..Len(s) : s[i] = ";" /\ \A j \in (i + 1)..Len(s) : s[j] # ";"
  ELSE 0

\* The text parser of IdlType (str::parse::<IdlType>): primitive names, a
\* fixed-size array whose length is a literal integer, a defined name;
\* any other shape is a failure.
RECURSIVE ParseIdlType(_)
ParseIdlType(text) ==
  LET array(elem, len) ==
        IF elem = IdlErr \/ ~IsLiteralInt(len) THEN IdlErr ELSE IdlArray(elem, len)
      split(inner, i) ==
        IF i = 0 THEN IdlErr
        ELSE array(ParseIdlType(SubSeq(inner, 1, i - 1)),
                   SubSeq(inner, i + 1, Len(inner)))
      bracketed(inner) == split(inner, LastSemi(inner))
      parsed(s) ==
        IF s \in PrimitiveNames THEN IdlPrim(s)
        ELSE IF starts_with(s, <<"[">>) /\ ends_with(s, <<"]">>) /\ Len(s) >= 2
        THEN bracketed(SubSeq(s, 2, Len(s) - 1))
        ELSE IF IsIdentText(s) THEN IdlDefined(s)
        ELSE IdlErr
  IN parsed(retain_non_whitespace(text))

\* to_idl_type up to the text it hands to the parser.
to_idl_type_text(consts, ty) ==
  LET \* if tts_string.starts_with('[') { .. }
      resolved(tts_string) ==
        IF starts_with(tts_string, <<"[">>)
        THEN resolve_variable_array_lengths(consts, tts_string)
        ELSE [err |-> NoPanic, s |-> tts_string]
      \* .and_then(|t| t.strip_suffix(" >"))
      and_then(stripped) ==
        IF stripped.ok THEN strip_suffix(stripped.s, <<" ", ">">>) ELSE stripped
      \* .unwrap_or(&tts_string)
      unwrap_or(stripped, tts_string) == IF stripped.ok THEN stripped.s ELSE tts_string
      unboxed(r) ==
        [err |-> r.err,
         text |-> unwrap_or(
                    and_then(strip_prefix(r.s, <<"B", "o", "x", " ", "<", " ">>)),
                    r.s)]
  IN unboxed(resolved(tts_to_string(ty)))

\* to_idl_type: the parsed IdlType, or the panic that ends the extraction.
to_idl_type(consts, ty) ==
  LET \* tts_string.parse().unwrap()
      unwrap(t, parsed) ==
        IF Failed(t.err) THEN [err |-> t.err, text |-> <<>>, ty |-> IdlErr]
        ELSE IF parsed = IdlErr
        THEN [err |-> Panic("called Result::unwrap on an Err value", <<>>),
              text |-> t.text, ty |-> IdlErr]
        ELSE [err |-> NoPanic, text |-> t.text, ty |-> parsed]
      parse(t) == unwrap(t, ParseIdlType(t.text))
  IN parse(to_idl_type_text(consts, ty))


\* ------------------------------------------------------------------------
\* Helpers on sequences
\* ------------------------------------------------------------------------
MinOf(S) == CHOOSE x \in S : \A y \in S : x <= y

\* The results of mapping a fallible step over a sequence, in order: the
\* first failure ends the iteration.
CollectResults(rs) ==
  LET bad == { i \in DOMAIN rs : Failed(rs[i].err) }
  IN IF bad = {} THEN [err |-> NoPanic, v |-> [i \in DOMAIN rs |-> rs[i].v]]
     ELSE [err |-> rs[MinOf(bad)].err, v |-> <<>>]

RECURSIVE Flatten(_)
Flatten(ss) == IF ss = <<>> THEN <<>> ELSE Head(ss) \o Flatten(Tail(ss))

\* ------------------------------------------------------------------------
\* Naming style (heck::MixedCase)
\* ------------------------------------------------------------------------
\* A new word starts after an underscore, at a lower-to-upper step, and
\* before the last capital of a run of capitals that a lower-case letter
\* follows.
WordStart(s, i) ==
  \/ i = 1
  \/ s[i - 1] = "_"
  \/ /\ s[i] \in UpperChars
     /\ \/ s[i - 1] \in LowerChars
        \/ s[i - 1] \in UpperChars /\ i < Len(s) /\ s[i + 1] \in LowerChars

RECURSIVE mixed_from(_, _, _)
mixed_from(s, i, out) ==
  IF i > Len(s) THEN out
  ELSE IF s[i] = "_" THEN mixed_from(s, i + 1, out)
  ELSE mixed_from(s, i + 1,
         out \o << IF WordStart(s, i) /\ out # <<>>
                   THEN to_uppercase(s[i]) ELSE to_lowercase(s[i]) >>)

\* str::to_mixed_case: first word in lower case, the others capitalised.
to_mixed_case(s) == mixed_from(s, 1, <<>>)

\* ------------------------------------------------------------------------
\* Attributes (syn::Attribute)
\* ------------------------------------------------------------------------
\* path: the segments of the attribute's path; tokens: its argument
\* tokens; parses: whether the argument parser of the tag accepts them.
Attr(path, tokens) == [path |-> path, tokens |-> tokens, parses |-> TRUE]
BadAttr(path, tokens) == [path |-> path, tokens |-> tokens, parses |-> FALSE]

\* attr.path.segments.last().unwrap().ident
last_ident(attr) == attr.path[Len(attr.path)]
\* attr.path.is_ident(name)
is_ident(attr, name) == attr.path = <<name>>
\* attr.tokens.to_string().contains(name); no token of the explored trees
\* is a substring of another one.
tokens_contain(attr, name) == \E i \in 1..Len(attr.tokens) : attr.tokens[i] = name

\* the number of attributes whose last path segment is one of names
attrs_count(attrs, names) ==
  Cardinality({ i \in 1..Len(attrs) : last_ident(attrs[i]) \in names })

\* A line of documentation: a text, with the symbol formatted into it.
DocLine(fmt, arg) == [fmt |-> fmt, arg |-> arg]

\* docs::parse: the lines of the doc attributes, None when there is none.
docs_parse(attrs) ==
  LET d == SelectSeq(attrs, LAMBDA a : is_ident(a, "doc"))
  IN IF d = <<>> THEN <<>> ELSE << Flatten([i \in 1..Len(d) |-> d[i].tokens]) >>

\* ------------------------------------------------------------------------
\* Account schema resolver
\* ------------------------------------------------------------------------
\* AccountField::Field and AccountField::CompositeField
AccField(ident, fty, is_mut, is_signer, docs, seeds, attrs) ==
  [kind |-> "field", ident |-> ident, ty |-> fty,
   constraints |-> [mutable |-> is_mut, signer |-> is_signer],
   docs |-> docs, seeds |-> seeds, attrs |-> attrs]
AccComposite(ident, symbol) ==
  [kind |-> "composite", ident |-> ident, symbol |-> symbol]

is_typesmith_derived(attrs) ==
  \E i \in 1..Len(attrs) : is_ident(attrs[i], "derived") /\ attrs[i].tokens = <<>>

\* pda::parse: the seed descriptor of the field, when the feature is on.
pda_parse(acc, seeds_feature) == IF seeds_feature THEN acc.seeds ELSE <<>>

\* idl_accounts. depth counts the nested calls: a call nested deeper than
\* the number of structures of the map is on a cycle of the composition,
\* where the recursion of the source never returns.
RECURSIVE idl_accounts_at(_, _, _, _, _)
idl_accounts_at(accounts, global_accs, seeds_feature, no_docs, depth) ==
  LET item(acc) ==
        IF acc.kind = "composite"
        THEN IF acc.symbol \notin DOMAIN global_accs
             THEN [err |-> Panic("Could not resolve Accounts symbol {}",
                                 <<acc.symbol>>),
                   v |-> <<>>]
             ELSE IF depth >= Cardinality(DOMAIN global_accs)
             THEN [err |-> Panic("stack overflow", <<>>), v |-> <<>>]
             ELSE LET sub == idl_accounts_at(global_accs[acc.symbol], global_accs,
                                             seeds_feature, no_docs, depth + 1)
                  IN [err |-> sub.err,
                      v |-> [k |-> "accounts",
                             name |-> to_mixed_case(acc.ident),
                             accounts |-> sub.v]]
        ELSE [err |-> NoPanic,
              v |-> [k |-> "account",
                     name |-> to_mixed_case(acc.ident),
                     is_mut |-> acc.constraints.mutable,
                     is_signer |-> IF acc.ty = "Signer" THEN TRUE
                                   ELSE acc.constraints.signer,
                     is_optional |-> <<>>,
                     docs |-> IF ~no_docs THEN acc.docs ELSE <<>>,
                     pda |-> pda_parse(acc, seeds_feature),
                     relations |-> <<>>,
                     typesmith_derived |-> is_typesmith_derived(acc.attrs)]]
  IN CollectResults([i \in 1..Len(accounts.fields) |-> item(accounts.fields[i])])

\* idl_accounts with the children of the root sorted by name.
idl_accounts_sorted(accounts, global_accs, seeds_feature, no_docs) ==
  LET r == idl_accounts_at(accounts, global_accs, seeds_feature, no_docs, 0)
      names == { r.v[i].name : i \in 1..Len(r.v) }
      rank(n) == Cardinality({ m \in names : StrLess(m, n) }) + 1
  IN [r EXCEPT !.v = [i \in 1..Len(r.v) |->
                        r.v[CHOOSE j \in 1..Len(r.v) : rank(r.v[j].name) = i]]]

idl_accounts(accounts, global_accs, seeds_feature, no_docs) ==
  idl_accounts_at(accounts, global_accs, seeds_feature, no_docs, 0)

\* ------------------------------------------------------------------------
\* Declarations of the tree
\* ------------------------------------------------------------------------
\* syn::Fields: named, unnamed (positional) or unit
NamedFields(list) == [k |-> "named", list |-> list]
UnnamedFields(list) == [k |-> "unnamed", list |-> list]
UnitFields == [k |-> "unit", list |-> <<>>]
Field(ident, fty, attrs) == [ident |-> ident, ty |-> fty, attrs |-> attrs]

\* syn::ItemStruct. accounts is what accounts::parse makes of the struct.
Struct(ident, pub, attrs, fields, accounts) ==
  [ident |-> ident, pub |-> pub, attrs |-> attrs, fields |-> fields,
   accounts |-> accounts]
NotAccounts == [ok |-> FALSE, fields |-> <<>>]
AccountsOf(fields) == [ok |-> TRUE, fields |-> fields]

\* syn::ItemEnum and syn::Variant (msg: the text of the msg attribute)
Variant(ident, fields, msg) == [ident |-> ident, fields |-> fields, msg |-> msg]
Enum(ident, pub, attrs, variants) ==
  [ident |-> ident, pub |-> pub, attrs |-> attrs, variants |-> variants]

\* syn::ItemMod at the root. program is what program::parse makes of it.
Mod(attrs, program) == [attrs |-> attrs, program |-> program]
Program(ok, name, docs, ixs) == [ok |-> ok, name |-> name, docs |-> docs, ixs |-> ixs]
\* An instruction of the program: derived_args is the derived_args
\* attribute of the method (absent, or its parse outcome and names).
Ix(ident, docs, derived_args, args, anchor_ident, returns) ==
  [ident |-> ident, docs |-> docs, derived_args |-> derived_args, args |-> args,
   anchor_ident |-> anchor_ident, returns |-> returns]
IxArg(name, aty, attrs) == [name |-> name, ty |-> aty, attrs |-> attrs]

\* ------------------------------------------------------------------------
\* Declaration extractors
\* ------------------------------------------------------------------------
\* parse_program_mod taking the first candidate when there are several.
parse_program_mod_first(c) ==
  LET mods == SelectSeq(c.mods, LAMBDA m : attrs_count(m.attrs, {"program"}) = 1)
  IN IF Len(mods) = 0 THEN <<>> ELSE <<mods[1]>>

\* parse_program_mod: the root module carrying exactly one "program"
\* attribute, when there is exactly one such module.
parse_program_mod(c) ==
  LET mods == SelectSeq(c.mods, LAMBDA m : attrs_count(m.attrs, {"program"}) = 1)
  IN IF Len(mods) # 1 THEN <<>> ELSE <<mods[1]>>

\* parse_error_enum: the first enum (the iterator is lazy) carrying an
\* error_code attribute; it must carry it once.
parse_error_enum(c) ==
  LET tagged == { i \in 1..Len(c.enums) : attrs_count(c.enums[i].attrs, {"error_code"}) > 0 }
  IN IF tagged = {} THEN [err |-> NoPanic, v |-> <<>>]
     ELSE IF attrs_count(c.enums[MinOf(tagged)].attrs, {"error_code"}) = 1
     THEN [err |-> NoPanic, v |-> <<c.enums[MinOf(tagged)]>>]
     ELSE [err |-> Panic("Invalid syntax: one error attribute allowed", <<>>),
           v |-> <<>>]

\* error::parse: the name of the enum and one code per variant, numbered
\* by its ordinal.
error_parse(e) ==
  [name |-> e.ident,
   codes |-> [i \in 1..Len(e.variants) |->
                [id |-> i - 1, ident |-> e.variants[i].ident,
                 msg |-> e.variants[i].msg]]]

\* The structs carrying one attribute among names; two on one struct panic.
structs_tagged(c, names) ==
  IF \E i \in 1..Len(c.structs) : attrs_count(c.structs[i].attrs, names) > 1
  THEN [err |-> Panic("Invalid syntax: one event attribute allowed", <<>>),
        v |-> <<>>]
  ELSE [err |-> NoPanic,
        v |-> SelectSeq(c.structs, LAMBDA st : attrs_count(st.attrs, names) = 1)]

parse_events(c) == structs_tagged(c, {"event"})
parse_accounts(c) == structs_tagged(c, {"account", "associated"})

derives_accounts(st) ==
  \E i \in 1..Len(st.attrs) :
     is_ident(st.attrs[i], "derive") /\ tokens_contain(st.attrs[i], DERIVE_NAME)

\* parse_account_derives: the map from name to AccountsStruct of the
\* structs deriving Accounts (a later struct of the same name replaces an
\* earlier one in the map).
parse_account_derives(c) ==
  LET derived == { i \in 1..Len(c.structs) : derives_accounts(c.structs[i]) }
      names == { c.structs[i].ident : i \in derived }
      last(n) == CHOOSE i \in derived :
                   /\ c.structs[i].ident = n
                   /\ \A j \in derived : c.structs[j].ident = n => j <= i
  IN IF \E i \in derived : ~c.structs[i].accounts.ok
     THEN [err |-> Panic("Code not parseable", <<>>), v |-> <<>>]
     ELSE [err |-> NoPanic,
           v |-> [n \in names |->
                    [ident |-> n, fields |-> c.structs[last(n)].accounts.fields]]]

parse_consts(c) ==
  SelectSeq(c.consts, LAMBDA k : attrs_count(k.attrs, {"constant"}) > 0)

\* "Only take serializable types"
serializable(attrs) ==
  \E i \in 1..Len(attrs) :
     \/ last_ident(attrs[i]) \in {"account", "associated", "event", "zero_copy"}
     \/ /\ last_ident(attrs[i]) = "derive"
        /\ tokens_contain(attrs[i], "AnchorSerialize")
        /\ tokens_contain(attrs[i], "AnchorDeserialize")

\* unpackable with the test on the derive argument left out.
unpackable_any_derive(attrs) ==
  \E i \in 1..Len(attrs) : last_ident(attrs[i]) = "derive"

unpackable(attrs) ==
  \E i \in 1..Len(attrs) :
     last_ident(attrs[i]) = "derive" /\ tokens_contain(attrs[i], "Unpackable")

\* The first seeds attribute of a struct: absent, parsed, or malformed.
typesmith_seeds_res(attrs) ==
  LET seeds == { i \in 1..Len(attrs) : is_ident(attrs[i], "seeds") }
  IN IF seeds = {} THEN [err |-> NoPanic, v |-> <<>>]
     ELSE IF attrs[MinOf(seeds)].parses
     THEN [err |-> NoPanic, v |-> <<[seeds |-> attrs[MinOf(seeds)].tokens]>>]
     ELSE [err |-> Err("Error parsing seeds attribute: {}", <<>>), v |-> <<>>]

IdlField(name, docs, fty) ==
  [name |-> name, docs |-> docs, ty |-> fty, typesmith_derived |-> FALSE]

\* The fields of a declaration as IdlFields; mixed tells whether the names
\* are converted to mixed case.
idl_fields(consts, list, no_docs, mixed) ==
  CollectResults(
    LET field(f, t) ==
          [err |-> t.err,
           v |-> IdlField(IF mixed THEN to_mixed_case(f.ident) ELSE f.ident,
                          IF ~no_docs THEN docs_parse(f.attrs) ELSE <<>>,
                          t.ty)]
    IN [i \in 1..Len(list) |-> field(list[i], to_idl_type(consts, list[i].ty))])

\* Positional fields treated like named ones.
positional_kept(fields) == FALSE

\* syn::Fields::Unnamed(_) => return None
positional(fields) == fields.k = "unnamed"

\* The closure of parse_ty_defs over one struct: nothing (the struct is
\* skipped), a definition (with its Unpacked duplicate), or a failure.
struct_ty_def(consts, st, no_docs) ==
  LET skip == [err |-> NoPanic, v |-> <<>>, unpacked |-> <<>>]
      doc == IF ~no_docs THEN docs_parse(st.attrs) ELSE <<>>
      unpacked(strct) ==
        [strct EXCEPT
           !.name = st.ident \o <<"U", "n", "p", "a", "c", "k", "e", "d">>,
           !.docs = << <<DocLine("Unpacked version of [{}]", st.ident)>> >>]
      pushed(strct) ==
        [err |-> NoPanic, v |-> <<strct>>,
         unpacked |-> IF unpackable(st.attrs) THEN <<unpacked(strct)>> ELSE <<>>]
      struct_res(seeds, fields) ==
        IF Failed(fields.err) THEN [skip EXCEPT !.err = fields.err]
        ELSE pushed([name |-> st.ident, docs |-> doc,
                     ty |-> [k |-> "struct", fields |-> fields.v],
                     typesmith |-> seeds.v])
      typesmith(seeds) ==
        IF Failed(seeds.err) THEN [skip EXCEPT !.err = seeds.err]
        ELSE IF ~st.pub THEN skip
        ELSE IF positional(st.fields) THEN skip
        ELSE IF st.fields.k = "unit"
        THEN [skip EXCEPT !.err = Panic("Empty structs are allowed.", <<>>)]
        ELSE struct_res(seeds, idl_fields(consts, st.fields.list, no_docs, TRUE))
  IN IF ~serializable(st.attrs) THEN skip
     ELSE typesmith(typesmith_seeds_res(st.attrs))

\* The closure of parse_ty_defs over one enum.
enum_ty_def(consts, enm, no_docs) ==
  LET doc == IF ~no_docs THEN docs_parse(enm.attrs) ELSE <<>>
      tuple_ty(t) == [err |-> t.err, v |-> t.ty]
      with_fields(v, k, fs) ==
        [err |-> fs.err,
         v |-> [name |-> v.ident, fields |-> <<[k |-> k, fields |-> fs.v]>>]]
      variant(v) ==
        IF v.fields.k = "unit"
        THEN [err |-> NoPanic, v |-> [name |-> v.ident, fields |-> <<>>]]
        ELSE IF v.fields.k = "unnamed"
        THEN with_fields(v, "tuple",
               CollectResults(
                 [i \in 1..Len(v.fields.list) |->
                    tuple_ty(to_idl_type(consts, v.fields.list[i].ty))]))
        ELSE with_fields(v, "named",
                         idl_fields(consts, v.fields.list, no_docs, FALSE))
      skip == [err |-> NoPanic, v |-> <<>>, unpacked |-> <<>>]
      definition(variants) ==
        IF Failed(variants.err) THEN [skip EXCEPT !.err = variants.err]
        ELSE [skip EXCEPT !.v = <<[name |-> enm.ident, docs |-> doc,
                                   ty |-> [k |-> "enum", variants |-> variants.v],
                                   typesmith |-> <<>>]>>]
  IN IF ~serializable(enm.attrs) THEN skip
     ELSE IF ~enm.pub THEN skip
     ELSE definition(
            CollectResults([i \in 1..Len(enm.variants) |-> variant(enm.variants[i])]))

\* parse_ty_defs: the definitions of the structs, then of the enums, then
\* the Unpacked duplicates; the first failure ends it.
parse_ty_defs(c, no_docs) ==
  LET \* ty_defs.extend(unpacked_structs)
      extend(rs, all) ==
        [err |-> all.err,
         v |-> IF Failed(all.err) THEN <<>>
               ELSE Flatten(all.v) \o Flatten([i \in 1..Len(rs) |-> rs[i].unpacked])]
      collect(rs) == extend(rs, CollectResults(rs))
  IN collect(
       [i \in 1..Len(c.structs) |-> struct_ty_def(c.consts, c.structs[i], no_docs)]
       \o [i \in 1..Len(c.enums) |-> enum_ty_def(c.consts, c.enums[i], no_docs)])

\* ------------------------------------------------------------------------
\* The stages of parse
\* ------------------------------------------------------------------------
lowercase(s) == [i \in 1..Len(s) |-> to_lowercase(s[i])]

\* The closure of parse over one instruction of the program.
idl_instruction(c, ix, accs, seeds_feature, no_docs) ==
  LET derived_args_vec ==
        IF ix.derived_args = <<>> THEN {}
        ELSE { lowercase(ix.derived_args[1].names[i]) :
                 i \in 1..Len(ix.derived_args[1].names) }
      arg(a, t) ==
        [err |-> t.err,
         v |-> [name |-> to_mixed_case(a.name),
                docs |-> IF ~no_docs THEN docs_parse(a.attrs) ELSE <<>>,
                ty |-> t.ty,
                typesmith_derived |-> lowercase(a.name) \in derived_args_vec]]
      none == [name |-> <<>>]
      returned(ret_type_str, returns) ==
        IF ret_type_str = <<"(", ")">> THEN [err |-> NoPanic, v |-> <<>>]
        ELSE IF returns = IdlErr
        THEN [err |-> Panic("called Result::unwrap on an Err value", <<>>), v |-> <<>>]
        ELSE [err |-> NoPanic, v |-> <<returns>>]
      returns_of(ret_type_str) == returned(ret_type_str, ParseIdlType(ret_type_str))
      instruction(args, accounts, returns) ==
        IF Failed(accounts.err) THEN [err |-> accounts.err, v |-> none]
        ELSE IF Failed(returns.err) THEN [err |-> returns.err, v |-> none]
        ELSE [err |-> NoPanic,
              v |-> [name |-> to_mixed_case(ix.ident),
                     docs |-> ix.docs,
                     accounts |-> accounts.v,
                     args |-> args.v,
                     returns |-> returns.v]]
      with_args(args) ==
        IF Failed(args.err) THEN [err |-> args.err, v |-> none]
        ELSE IF ix.anchor_ident \notin DOMAIN accs
        THEN [err |-> Panic("called Option::unwrap on a None value", <<>>), v |-> none]
        ELSE instruction(args,
                         idl_accounts(accs[ix.anchor_ident], accs, seeds_feature, no_docs),
                         returns_of(tts_to_string(ix.returns)))
  IN IF ix.derived_args # <<>> /\ ~ix.derived_args[1].parses
     THEN [err |-> Err("Failed to parse Instruction {}'s derived_args attribute",
                       <<to_mixed_case(ix.ident)>>),
           v |-> none]
     ELSE with_args(CollectResults(
                      [i \in 1..Len(ix.args) |->
                         arg(ix.args[i], to_idl_type(c.consts, ix.args[i].ty))]))

idl_instructions(c, prog, accs, seeds_feature, no_docs) ==
  CollectResults([i \in 1..Len(prog.ixs) |->
                    idl_instruction(c, prog.ixs[i], accs, seeds_feature, no_docs)])

\* The closure of parse over one event struct.
idl_event(c, e) ==
  LET field(f, t) ==
        [err |-> t.err,
         v |-> [name |-> to_mixed_case(f.ident),
                ty |-> t.ty,
                index |-> f.attrs # <<>> /\ f.attrs[1].path = <<"index">>]]
      event(fields) ==
        [err |-> fields.err, v |-> [name |-> e.ident, fields |-> fields.v]]
  IN IF e.fields.k # "named"
     THEN [err |-> Panic("Event fields must be named", <<>>), v |-> [name |-> e.ident]]
     ELSE event(CollectResults(
                  [i \in 1..Len(e.fields.list) |->
                     field(e.fields.list[i],
                           to_idl_type(c.consts, e.fields.list[i].ty))]))

idl_events(c) ==
  LET evs == parse_events(c)
  IN IF Failed(evs.err) THEN evs
     ELSE CollectResults([i \in 1..Len(evs.v) |-> idl_event(c, evs.v[i])])

\* The closure of parse over one exported constant.
idl_const(k) ==
  LET t == ParseIdlType(tts_to_string(k.ty))
  IN [err |-> IF t = IdlErr
              THEN Panic("called Result::unwrap on an Err value", <<>>)
              ELSE NoPanic,
      v |-> [name |-> k.ident, ty |-> t, value |-> k.expr]]

idl_consts(c) ==
  LET ks == parse_consts(c)
  IN CollectResults([i \in 1..Len(ks) |-> idl_const(ks[i])])

\* "All types that aren't in the accounts section, are in the types
\* section": the partition of the type definitions.
accounts_of(ty_defs, account_names, error_name) ==
  SelectSeq(ty_defs, LAMBDA d : d.name # error_name /\ d.name \in account_names)

\* The types of the partition without the test on the event names.
types_of_with_events(ty_defs, account_names, error_name, events) ==
  SelectSeq(ty_defs,
            LAMBDA d : d.name # error_name /\ d.name \notin account_names)

types_of(ty_defs, account_names, error_name, events) ==
  SelectSeq(ty_defs,
            LAMBDA d : /\ d.name # error_name
                       /\ d.name \notin account_names
                       /\ ~\E i \in 1..Len(events) : events[i].name = d.name)

\* slice::sort_by(|a, b| a.name.cmp(&b.name)): a stable sort by name.
\* The insertion of the sort comparing the names without their case.
RECURSIVE insert_ignoring_case(_, _)
insert_ignoring_case(sorted, x) ==
  IF sorted = <<>> THEN <<x>>
  ELSE IF StrLess(lowercase(x.name), lowercase(Head(sorted).name)) THEN <<x>> \o sorted
  ELSE <<Head(sorted)>> \o insert_ignoring_case(Tail(sorted), x)

RECURSIVE insert_by_name(_, _)
insert_by_name(sorted, x) ==
  IF sorted = <<>> THEN <<x>>
  ELSE IF StrLess(x.name, Head(sorted).name) THEN <<x>> \o sorted
  ELSE <<Head(sorted)>> \o insert_by_name(Tail(sorted), x)

RECURSIVE sort_from(_, _, _)
sort_from(xs, i, sorted) ==
  IF i > Len(xs) THEN sorted
  ELSE sort_from(xs, i + 1, insert_by_name(sorted, xs[i]))

sort_by_name(xs) == sort_from(xs, 1, <<>>)

\* ------------------------------------------------------------------------
\* State
\* ------------------------------------------------------------------------
VARIABLES
  pc,            \* the position in the function under execution
  ctx,           \* the CrateContext: the declaration tree
  opts,          \* the arguments of parse: version and the three flags
  p,             \* the parsed program (parse: p)
  accs,          \* the map of the Accounts structs (parse: accs)
  error,         \* the parsed error enum, if any (parse: error)
  instructions,  \* parse: instructions
  events,        \* parse: events
  ty_defs,       \* parse: ty_defs
  accounts,      \* parse: accounts
  types,         \* parse: types
  constants,     \* parse: constants
  result,        \* what parse returned
  ty,            \* the type expression given to to_idl_type
  idl_ty,        \* what to_idl_type returned (empty before it returns)
  accounts_strct,  \* the structure given to idl_accounts
  idl_accs       \* what idl_accounts returned (empty before it returns)

locals == <<p, accs, error, instructions, events, ty_defs, accounts, types, constants>>
\* the argument and the result of a helper function run on its own
fn_io == <<ty, idl_ty, accounts_strct, idl_accs>>
vars == <<pc, ctx, opts, locals, result, fn_io>>

Running == [status |-> "running", err |-> NoPanic, idl |-> <<>>]
OkNone == [status |-> "Ok(None)", err |-> NoPanic, idl |-> <<>>]
OkSome(idl) == [status |-> "Ok(Some)", err |-> NoPanic, idl |-> <<idl>>]
\* parse ends with the failure e: a returned Err or a panic
Fatal(e) == [status |-> IF e.kind = "err" THEN "Err" ELSE "panic", err |-> e,
             idl |-> <<>>]

Options(seeds_feature, no_docs, safety_checks) ==
  [version |-> "0.1.0", seeds_feature |-> seeds_feature, no_docs |-> no_docs,
   safety_checks |-> safety_checks]

\* ------------------------------------------------------------------------
\* The explored declaration trees
\* ------------------------------------------------------------------------
SeqsUpTo(S, n) == UNION { [1..k -> S] : k \in 0..n }
\* the same, without repetition
DistinctSeqsUpTo(S, n) ==
  { q \in SeqsUpTo(S, n) : \A i, j \in 1..Len(q) : i # j => q[i] # q[j] }

\* the elements of seq at the positions of S, in order
RECURSIVE Pick(_, _, _)
Pick(seq, S, i) ==
  IF i > Len(seq) THEN <<>>
  ELSE (IF i \in S THEN <<seq[i]>> ELSE <<>>) \o Pick(seq, S, i + 1)
SubSeqsOf(seq) == { Pick(seq, S, 1) : S \in SUBSET (1..Len(seq)) }

Name_N == <<"N">>
Name_LN == <<"L", "N">>
Name_a == <<"a">>
Name_B == <<"B">>
Name_BUnpacked == <<"B", "U", "n", "p", "a", "c", "k", "e", "d">>
Name_E == <<"E">>
Name_Ctx == <<"C", "t", "x">>
Name_Sub == <<"S", "u", "b">>
Name_Nope == <<"N", "o", "p", "e">>
Ty_usize == TPath(<<"u", "s", "i", "z", "e">>)
Ty_u8 == TPath(<<"u", "8">>)
Ty_bool == TPath(<<"b", "o", "o", "l">>)
Ty_Foo == TPath(<<"F", "o", "o">>)

Doc(line) == Attr(<<"doc">>, <<DocLine(line, <<>>)>>)
SomeDocs(line) == << <<DocLine(line, <<>>)>> >>

\* constants
Const(ident, cty, expr, attrs) ==
  [ident |-> ident, ty |-> cty, expr |-> expr, attrs |-> attrs]

ConstPool ==
  { Const(n, t, e, <<Attr(<<"constant">>, <<>>)>>) :
      n \in {Name_N, Name_LN}, t \in {Ty_usize, Ty_u8}, e \in {<<"3">>, <<"4">>} }
  \cup { Const(Name_N, Ty_bool, <<"t", "r", "u", "e">>, <<>>) }

LenExprs ==
  { LenLit(<<"2">>), LenName(Name_N), LenName(Name_LN), LenCast(Name_N),
    LenCast(Name_LN) }

RECURSIVE TypeExprs(_)
TypeExprs(d) ==
  IF d = 0 THEN {Ty_u8, Ty_Foo}
  ELSE LET S == TypeExprs(d - 1)
       IN S \cup { TBox(t) : t \in S }
            \cup { TArray(t, l) : t \in S, l \in LenExprs }

\* the Accounts structs every tree holds: Ctx composed of two accounts and
\* the nested Sub
F_payer ==
  AccField(<<"p", "a", "y", "e", "r">>, "Signer", TRUE, FALSE, SomeDocs("payer"),
           <<"seeds of payer">>, <<>>)
F_data ==
  AccField(<<"m", "y", "_", "d", "a", "t", "a">>, "Account", FALSE, FALSE, <<>>, <<>>,
           <<Attr(<<"derived">>, <<>>)>>)
F_auth ==
  AccField(<<"a", "u", "t", "h">>, "AccountInfo", FALSE, TRUE, <<>>, <<>>, <<>>)
DeriveAccounts == Attr(<<"derive">>, <<"Accounts">>)
S_Sub ==
  Struct(Name_Sub, TRUE, <<DeriveAccounts>>, NamedFields(<<>>), AccountsOf(<<F_auth>>))
S_Ctx ==
  Struct(Name_Ctx, TRUE, <<DeriveAccounts>>, NamedFields(<<>>),
         AccountsOf(<<F_payer, AccComposite(<<"s", "u", "b">>, Name_Sub), F_data>>))
BaseStructs == <<S_Ctx, S_Sub>>

\* instructions
Ix_b_a ==
  Ix(<<"b", "_", "a">>, SomeDocs("ix b_a"), <<>>,
     <<IxArg(<<"x", "_", "y">>, Ty_u8, <<Doc("arg")>>)>>, Name_Ctx, TUnit)
Ix_a ==
  Ix(<<"a">>, <<>>, <<[parses |-> TRUE, names |-> << <<"X", "_", "y">> >>]>>,
     <<IxArg(<<"x", "_", "y">>, Ty_u8, <<>>), IxArg(<<"z">>, Ty_Foo, <<>>)>>,
     Name_Ctx, Ty_u8)
Ix_bA == Ix(<<"b", "A">>, <<>>, <<>>, <<>>, Name_Sub, TUnit)
Ix_C == Ix(<<"C">>, <<>>, <<>>, <<>>, Name_Sub, TUnit)
Ix_bad_derived ==
  Ix(<<"d">>, <<>>, <<[parses |-> FALSE, names |-> <<>>]>>, <<>>, Name_Ctx, TUnit)
Ix_no_accounts == Ix(<<"e">>, <<>>, <<>>, <<>>, Name_Nope, TUnit)
IxPool == {Ix_b_a, Ix_a, Ix_bA, Ix_C, Ix_bad_derived, Ix_no_accounts}

\* root modules
ProgramAttr == Attr(<<"program">>, <<>>)
TheProgram(ixs) == Program(TRUE, <<"p", "r", "o", "g">>, SomeDocs("the program"), ixs)
M_program(ixs) == Mod(<<ProgramAttr>>, TheProgram(ixs))
ModPool ==
  { Mod(<<>>, TheProgram(<<>>)),
    M_program(<<Ix_b_a>>),
    Mod(<<Attr(<<"anchor_lang", "program">>, <<>>)>>, TheProgram(<<>>)),
    Mod(<<ProgramAttr, ProgramAttr>>, TheProgram(<<>>)),
    Mod(<<ProgramAttr>>, Program(FALSE, <<>>, <<>>, <<>>)) }

\* structs
Tag(name) == Attr(<<name>>, <<>>)
DeriveSer == Attr(<<"derive">>, <<"AnchorSerialize", "AnchorDeserialize">>)
DeriveSerUnpackable ==
  Attr(<<"derive">>, <<"AnchorSerialize", "AnchorDeserialize", "Unpackable">>)
DeriveUnpackable == Attr(<<"derive">>, <<"Unpackable">>)
SeedsOk == Attr(<<"seeds">>, <<"seed types">>)
SeedsBad == BadAttr(<<"seeds">>, <<"malformed">>)
OneNamed ==
  NamedFields(<<Field(<<"f", "_", "x">>, Ty_u8, <<Doc("field")>>)>>)
TwoNamed ==
  NamedFields(<<Field(<<"v">>, Ty_u8, <<Tag("index")>>),
                Field(<<"w">>, Ty_Foo, <<>>)>>)
OneUnnamed == UnnamedFields(<<Field(<<>>, Ty_u8, <<>>)>>)

StructPool ==
  { Struct(Name_a, TRUE, <<Doc("account a"), Tag("account")>>, OneNamed, NotAccounts),
    Struct(Name_B, TRUE, <<Tag("account")>>, TwoNamed, NotAccounts),
    Struct(Name_a, TRUE, <<DeriveSer>>, TwoNamed, NotAccounts),
    Struct(Name_B, TRUE, <<Doc("type B"), DeriveSerUnpackable>>, OneNamed, NotAccounts),
    Struct(Name_BUnpacked, TRUE, <<DeriveSer>>, OneNamed, NotAccounts),
    Struct(Name_a, TRUE, <<Tag("event")>>, TwoNamed, NotAccounts),
    Struct(Name_B, TRUE, <<Tag("event")>>, OneNamed, NotAccounts),
    Struct(Name_a, FALSE, <<Tag("account")>>, OneNamed, NotAccounts),
    Struct(Name_B, TRUE, <<Tag("account"), DeriveUnpackable>>, OneUnnamed, NotAccounts),
    Struct(Name_a, TRUE, <<Tag("zero_copy")>>, UnitFields, NotAccounts),
    Struct(Name_a, TRUE, <<Tag("account"), Tag("associated")>>, OneNamed, NotAccounts),
    Struct(Name_a, TRUE, <<Tag("event"), Tag("event")>>, OneNamed, NotAccounts),
    Struct(Name_a, TRUE, <<Tag("event")>>, OneUnnamed, NotAccounts),
    Struct(Name_a, FALSE, <<Tag("account"), SeedsBad>>, OneNamed, NotAccounts),
    Struct(Name_a, TRUE, <<SeedsOk, Tag("account")>>, OneNamed, NotAccounts),
    Struct(Name_a, TRUE, <<Doc("plain")>>, OneNamed, NotAccounts) }

\* a struct with positional fields under every combination of tags
TagList ==
  << Tag("account"), Tag("event"), Tag("zero_copy"), DeriveSer, DeriveUnpackable,
     SeedsOk >>
PositionalStructs ==
  { Struct(n, pub, attrs, OneUnnamed, NotAccounts) :
      n \in {Name_a, Name_B}, pub \in BOOLEAN, attrs \in SubSeqsOf(TagList) }

\* enums
ErrorCode == Tag("error_code")
TwoVariants ==
  << Variant(<<"X">>, UnitFields, "x"), Variant(<<"Y">>, UnitFields, "y") >>
MixedVariants ==
  << Variant(<<"U">>, UnitFields, ""),
     Variant(<<"T">>, UnnamedFields(<<Field(<<>>, Ty_u8, <<>>)>>), ""),
     Variant(<<"S">>, NamedFields(<<Field(<<"f", "_", "x">>, Ty_u8, <<Doc("f")>>)>>), "") >>
EnumPool ==
  { Enum(Name_E, TRUE, <<ErrorCode>>, TwoVariants),
    Enum(Name_a, TRUE, <<ErrorCode, DeriveSer>>, TwoVariants),
    Enum(Name_B, TRUE, <<ErrorCode>>, TwoVariants),
    Enum(Name_E, TRUE, <<ErrorCode, ErrorCode>>, TwoVariants),
    Enum(Name_a, TRUE, <<Doc("enum a"), DeriveSer>>, MixedVariants),
    Enum(Name_B, FALSE, <<DeriveSer>>, TwoVariants) }

Tree(mods, structs, enums, consts, safe) ==
  [mods |-> mods, structs |-> structs, enums |-> enums, consts |-> consts, safe |-> safe]
Input(tree, options) == [ctx |-> tree, opts |-> options]

OneProgram == <<M_program(<<Ix_b_a, Ix_a>>)>>

\* trees varying the root modules and the safety checks
ModTrees ==
  { Input(Tree(mods, BaseStructs, <<>>, <<>>, safe), Options(FALSE, FALSE, checks)) :
      mods \in SeqsUpTo(ModPool, MaxMods), safe \in BOOLEAN, checks \in BOOLEAN }

\* trees varying the instructions of the program (the functions of a
\* module have distinct names)
IxTrees ==
  { Input(Tree(<<M_program(ixs)>>, BaseStructs, <<>>, <<>>, TRUE),
          Options(seeds, no_docs, FALSE)) :
      ixs \in DistinctSeqsUpTo(IxPool, MaxIxs), seeds \in BOOLEAN, no_docs \in BOOLEAN }

\* trees varying the structs
StructTrees ==
  { Input(Tree(OneProgram, structs \o BaseStructs, enums, <<>>, TRUE),
          Options(FALSE, no_docs, FALSE)) :
      structs \in SeqsUpTo(StructPool, MaxStructs),
      enums \in { <<>>, <<Enum(Name_E, TRUE, <<ErrorCode>>, TwoVariants)>>,
                  <<Enum(Name_a, TRUE, <<ErrorCode>>, TwoVariants)>> },
      no_docs \in BOOLEAN }

\* trees varying the enums
EnumTrees ==
  { Input(Tree(OneProgram, structs \o BaseStructs, enums, <<>>, TRUE),
          Options(FALSE, FALSE, FALSE)) :
      enums \in SeqsUpTo(EnumPool, MaxEnums),
      structs \in { <<>>,
                    <<Struct(Name_a, TRUE, <<Tag("account")>>, OneNamed, NotAccounts)>>,
                    <<Struct(Name_a, TRUE, <<DeriveSer>>, OneNamed, NotAccounts)>> } }

\* trees varying the constants, next to a struct with an array field
ConstTrees ==
  { Input(Tree(OneProgram,
               <<Struct(Name_a, TRUE, <<DeriveSer>>,
                        NamedFields(<<Field(<<"f">>, fty, <<>>)>>), NotAccounts)>>
                 \o BaseStructs,
               <<>>, consts, TRUE),
          Options(FALSE, FALSE, FALSE)) :
      consts \in SeqsUpTo(ConstPool, MaxConsts),
      fty \in { Ty_u8, TArray(Ty_u8, LenName(Name_N)), TArray(Ty_u8, LenName(Name_LN)),
                TArray(Ty_u8, LenCast(Name_LN)), TBox(Ty_u8) } }

\* trees holding a struct with positional fields, alone or next to
\* another struct
TagTrees ==
  { Input(Tree(OneProgram, <<st>> \o others \o BaseStructs, <<>>, <<>>, TRUE),
          Options(FALSE, FALSE, FALSE)) :
      st \in PositionalStructs,
      others \in { <<>>,
                   <<Struct(Name_BUnpacked, TRUE, <<DeriveSer>>, OneNamed, NotAccounts)>>,
                   <<Struct(Name_B, TRUE, <<Tag("account")>>, OneNamed, NotAccounts)>> } }

\* a public named-field struct B under every combination of tags, next to
\* declarations that have its name or the name of its Unpacked duplicate
UnpackTagList ==
  << Doc("type B"), Tag("account"), Tag("event"), DeriveSer, DeriveUnpackable,
     SeedsOk >>
UnpackTrees ==
  { Input(Tree(OneProgram, <<Struct(Name_B, TRUE, attrs, OneNamed, NotAccounts)>>
                             \o others \o BaseStructs,
               enums, <<>>, TRUE),
          Options(FALSE, no_docs, FALSE)) :
      attrs \in SubSeqsOf(UnpackTagList),
      others \in { <<>>,
                   <<Struct(Name_BUnpacked, TRUE, <<Tag("event")>>, OneNamed, NotAccounts)>>,
                   <<Struct(Name_BUnpacked, TRUE, <<Tag("account")>>, TwoNamed, NotAccounts)>>,
                   <<Struct(Name_B, TRUE, <<DeriveSerUnpackable>>, TwoNamed, NotAccounts)>> },
      enums \in { <<>>, <<Enum(Name_B, TRUE, <<ErrorCode>>, TwoVariants)>>,
                  <<Enum(Name_BUnpacked, TRUE, <<ErrorCode>>, TwoVariants)>> },
      no_docs \in BOOLEAN }

\* a struct or an enum that is not public under every combination of
\* tags (a malformed seeds tag among them) and every shape of fields
PrivateTagList ==
  << Tag("account"), Tag("event"), Tag("zero_copy"), DeriveSerUnpackable, SeedsBad >>
PrivateTrees ==
  { Input(Tree(OneProgram, <<Struct(Name_B, FALSE, attrs, fields, NotAccounts)>>
                             \o BaseStructs,
               enums, <<>>, TRUE),
          Options(FALSE, FALSE, FALSE)) :
      attrs \in SubSeqsOf(PrivateTagList),
      fields \in {OneNamed, OneUnnamed, UnitFields},
      enums \in { <<>>,
                  <<Enum(Name_a, FALSE, <<DeriveSer>>, MixedVariants)>>,
                  <<Enum(Name_a, FALSE, <<Tag("account"), ErrorCode>>, TwoVariants)>> } }

\* parse is given one of the trees of S
Given(S) == \E in \in S : ctx = in.ctx /\ opts = in.opts

NoLocals ==
  /\ p = <<>>
  /\ accs = <<>>
  /\ error = <<>>
  /\ instructions = <<>>
  /\ events = <<>>
  /\ ty_defs = <<>>
  /\ accounts = <<>>
  /\ types = <<>>
  /\ constants = <<>>

\* ------------------------------------------------------------------------
\* parse
\* ------------------------------------------------------------------------
Init ==
  /\ pc = "safety_checks"
  /\ \/ Given(ModTrees)
     \/ Given(IxTrees)
     \/ Given(StructTrees)
     \/ Given(EnumTrees)
     \/ Given(ConstTrees)
     \/ Given(TagTrees)
     \/ Given(UnpackTrees)
     \/ Given(PrivateTrees)
  /\ NoLocals
  /\ result = Running
  /\ ty = TUnit
  /\ idl_ty = <<>>
  /\ accounts_strct = <<>>
  /\ idl_accs = <<>>

\* parse returns (or panics) with r
Return(r) == pc' = "done" /\ result' = r
Goto(next) == pc' = next /\ result' = result

\* if safety_checks { ctx.safety_checks()?; }
SafetyChecks ==
  /\ pc = "safety_checks"
  /\ IF opts.safety_checks /\ ~ctx.safe
     THEN Return(Fatal(Err("safety checks failed", <<>>)))
     ELSE Goto("parse_program_mod")
  /\ UNCHANGED <<ctx, opts, locals, fn_io>>

\* let program_mod = match parse_program_mod(&ctx) { None => return Ok(None), .. };
\* let mut p = program::parse(program_mod)?;  and the no_docs clearing
ParseProgram ==
  /\ pc = "parse_program_mod"
  /\ LET program_mod == parse_program_mod(ctx)
     IN IF program_mod = <<>>
        THEN Return(OkNone) /\ p' = p
        ELSE IF ~program_mod[1].program.ok
        THEN Return(Fatal(Err("program::parse failed", <<>>))) /\ p' = p
        ELSE /\ Goto("parse_account_derives")
             /\ p' = IF opts.no_docs
                     THEN << [program_mod[1].program EXCEPT
                                !.docs = <<>>,
                                !.ixs = [i \in 1..Len(@) |-> [@[i] EXCEPT !.docs = <<>>]]] >>
                     ELSE << program_mod[1].program >>
  /\ UNCHANGED <<ctx, opts, accs, error, instructions, events, ty_defs, accounts,
                 types, constants, fn_io>>

\* let accs = parse_account_derives(&ctx);
ParseAccountDerives ==
  /\ pc = "parse_account_derives"
  /\ LET r == parse_account_derives(ctx)
     IN IF Failed(r.err) THEN Return(Fatal(r.err)) /\ accs' = accs
        ELSE Goto("parse_error_enum") /\ accs' = <<r.v>>
  /\ UNCHANGED <<ctx, opts, p, error, instructions, events, ty_defs, accounts,
                 types, constants, fn_io>>

\* let error = parse_error_enum(&ctx).map(|mut e| error::parse(&mut e, None));
ParseErrorEnum ==
  /\ pc = "parse_error_enum"
  /\ LET r == parse_error_enum(ctx)
     IN IF Failed(r.err) THEN Return(Fatal(r.err)) /\ error' = error
        ELSE /\ Goto("instructions")
             /\ error' = IF r.v = <<>> THEN <<>> ELSE <<error_parse(r.v[1])>>
  /\ UNCHANGED <<ctx, opts, p, accs, instructions, events, ty_defs, accounts,
                 types, constants, fn_io>>

\* let mut instructions = p.ixs.iter().map(..).collect::<Result<Vec<_>>>()?;
Instructions ==
  /\ pc = "instructions"
  /\ LET r == idl_instructions(ctx, p[1], accs[1], opts.seeds_feature, opts.no_docs)
     IN IF Failed(r.err) THEN Return(Fatal(r.err)) /\ instructions' = instructions
        ELSE Goto("events") /\ instructions' = r.v
  /\ UNCHANGED <<ctx, opts, p, accs, error, events, ty_defs, accounts, types,
                 constants, fn_io>>

\* let mut events = parse_events(&ctx).iter().map(..).collect();
Events ==
  /\ pc = "events"
  /\ LET r == idl_events(ctx)
     IN IF Failed(r.err) THEN Return(Fatal(r.err)) /\ events' = events
        ELSE Goto("parse_ty_defs") /\ events' = r.v
  /\ UNCHANGED <<ctx, opts, p, accs, error, instructions, ty_defs, accounts, types,
                 constants, fn_io>>

\* let ty_defs = parse_ty_defs(&ctx, no_docs)?;
ParseTyDefs ==
  /\ pc = "parse_ty_defs"
  /\ LET r == parse_ty_defs(ctx, opts.no_docs)
     IN IF Failed(r.err) THEN Return(Fatal(r.err)) /\ ty_defs' = ty_defs
        ELSE Goto("partition") /\ ty_defs' = r.v
  /\ UNCHANGED <<ctx, opts, p, accs, error, instructions, events, accounts, types,
                 constants, fn_io>>

\* parse_accounts, account_names, error_name and the loop that fills
\* accounts and types
Partition ==
  /\ pc = "partition"
  /\ LET account_structs == parse_accounts(ctx)
         account_names ==
           { account_structs.v[i].ident : i \in 1..Len(account_structs.v) }
         error_name == IF error = <<>> THEN <<>> ELSE error[1].name
     IN IF Failed(account_structs.err)
        THEN Return(Fatal(account_structs.err)) /\ UNCHANGED <<accounts, types>>
        ELSE /\ Goto("constants")
             /\ accounts' = accounts_of(ty_defs, account_names, error_name)
             /\ types' = types_of(ty_defs, account_names, error_name, events)
  /\ UNCHANGED <<ctx, opts, p, accs, error, instructions, events, ty_defs,
                 constants, fn_io>>

\* let mut constants = parse_consts(&ctx).iter().map(..).collect();
Constants ==
  /\ pc = "constants"
  /\ LET r == idl_consts(ctx)
     IN IF Failed(r.err) THEN Return(Fatal(r.err)) /\ constants' = constants
        ELSE Goto("sort") /\ constants' = r.v
  /\ UNCHANGED <<ctx, opts, p, accs, error, instructions, events, ty_defs, accounts,
                 types, fn_io>>

\* "sort everything by name" and Ok(Some(Idl { .. }))
SortAndReturn ==
  /\ pc = "sort"
  /\ instructions' = sort_by_name(instructions)
  /\ types' = sort_by_name(types)
  /\ accounts' = sort_by_name(accounts)
  /\ events' = sort_by_name(events)
  /\ constants' = sort_by_name(constants)
  /\ Return(OkSome(
       [version |-> opts.version,
        name |-> p[1].name,
        docs |-> p[1].docs,
        instructions |-> instructions',
        types |-> types',
        accounts |-> accounts',
        events |-> IF events' = <<>> THEN <<>> ELSE <<events'>>,
        errors |-> IF error = <<>> THEN <<>>
                   ELSE << [i \in 1..Len(error[1].codes) |->
                              [code |-> ERROR_CODE_OFFSET + error[1].codes[i].id,
                               name |-> error[1].codes[i].ident,
                               msg |-> error[1].codes[i].msg]] >>,
        metadata |-> <<>>,
        constants |-> constants']))
  /\ UNCHANGED <<ctx, opts, p, accs, error, ty_defs, fn_io>>

Next ==
  \/ SafetyChecks
  \/ ParseProgram
  \/ ParseAccountDerives
  \/ ParseErrorEnum
  \/ Instructions
  \/ Events
  \/ ParseTyDefs
  \/ Partition
  \/ Constants
  \/ SortAndReturn

Spec == Init /\ [][Next]_vars

\* ------------------------------------------------------------------------
\* The canonical type resolver as a function of (constants, expression)
\* ------------------------------------------------------------------------
InitTy ==
  /\ pc = "to_idl_type"
  /\ \E cs \in SeqsUpTo(ConstPool, MaxConsts) : ctx = Tree(<<>>, <<>>, <<>>, cs, TRUE)
  /\ opts = Options(FALSE, FALSE, FALSE)
  /\ NoLocals
  /\ result = Running
  /\ ty \in TypeExprs(MaxTyDepth)
  /\ idl_ty = <<>>
  /\ accounts_strct = <<>>
  /\ idl_accs = <<>>

ToIdlType ==
  /\ pc = "to_idl_type"
  /\ idl_ty' = <<to_idl_type(ctx.consts, ty)>>
  /\ pc' = "resolved"
  /\ UNCHANGED <<ctx, opts, locals, result, ty, accounts_strct, idl_accs>>

NextTy == ToIdlType

SpecTy == InitTy /\ [][NextTy]_vars

\* ------------------------------------------------------------------------
\* The account schema resolver as a function of (structure, global map)
\* ------------------------------------------------------------------------
Name_X == <<"X">>
Name_Y == <<"Y">>
Name_Z == <<"Z">>
\* the fields of the explored structures: two accounts and three
\* composite fields, one of them back to the root
AccFieldPool ==
  { F_payer, F_data, AccComposite(<<"s", "u", "b">>, Name_Y),
    AccComposite(<<"o", "t", "h", "e", "r">>, Name_Z),
    AccComposite(<<"b", "a", "c", "k">>, Name_X) }
\* the fields of a struct have distinct names
AccFieldSeqs == DistinctSeqsUpTo(AccFieldPool, MaxAccFields)
AccsStruct(n, fields) == [ident |-> n, fields |-> fields]

\* the global maps: X is always there, Y and Z may be missing
GlobalMaps ==
  { [n \in {Name_X} \cup ys \cup zs |->
       IF n = Name_X THEN AccsStruct(n, fx)
       ELSE IF n = Name_Y THEN AccsStruct(n, fy) ELSE AccsStruct(n, fz)] :
      fx \in AccFieldSeqs, fy \in AccFieldSeqs,
      fz \in { <<F_auth>>, <<F_payer, F_auth>> },
      ys \in { {}, {Name_Y} }, zs \in { {}, {Name_Z} } }

InitAccs ==
  /\ pc = "idl_accounts"
  /\ ctx = Tree(<<>>, <<>>, <<>>, <<>>, TRUE)
  /\ \E seeds \in BOOLEAN, no_docs \in BOOLEAN : opts = Options(seeds, no_docs, FALSE)
  /\ p = <<>>
  /\ \E m \in GlobalMaps : accs = <<m>> /\ accounts_strct = <<m[Name_X]>>
  /\ error = <<>>
  /\ instructions = <<>>
  /\ events = <<>>
  /\ ty_defs = <<>>
  /\ accounts = <<>>
  /\ types = <<>>
  /\ constants = <<>>
  /\ result = Running
  /\ ty = TUnit
  /\ idl_ty = <<>>
  /\ idl_accs = <<>>

IdlAccounts ==
  /\ pc = "idl_accounts"
  /\ idl_accs' = <<idl_accounts(accounts_strct[1], accs[1], opts.seeds_feature,
                                opts.no_docs)>>
  /\ pc' = "returned"
  /\ UNCHANGED <<ctx, opts, locals, result, ty, idl_ty, accounts_strct>>

NextAccs == IdlAccounts

SpecAccs == InitAccs /\ [][NextAccs]_vars

\* ------------------------------------------------------------------------
\* Claims about the account schema resolver
\* ------------------------------------------------------------------------
\* every composite reference below strct resolves in the map, and no
\* structure is composed, directly or not, of itself
RECURSIVE AcyclicAndResolved(_, _, _)
AcyclicAndResolved(strct, global_accs, above) ==
  \A i \in 1..Len(strct.fields) :
     strct.fields[i].kind = "composite"
       => /\ strct.fields[i].symbol \in DOMAIN global_accs
          /\ strct.fields[i].symbol \notin above
          /\ AcyclicAndResolved(global_accs[strct.fields[i].symbol], global_accs,
                                above \cup {strct.fields[i].symbol})

\* items has one child per field of strct, in the order of the fields, an
\* account for a field and a group built the same way for a composite field
RECURSIVE InDeclarationOrder(_, _, _)
InDeclarationOrder(strct, global_accs, items) ==
  /\ Len(items) = Len(strct.fields)
  /\ \A i \in 1..Len(strct.fields) :
        /\ items[i].name = to_mixed_case(strct.fields[i].ident)
        /\ IF strct.fields[i].kind = "composite"
           THEN /\ items[i].k = "accounts"
                /\ InDeclarationOrder(global_accs[strct.fields[i].symbol], global_accs,
                                      items[i].accounts)
           ELSE items[i].k = "account"

\* C9: for a structure whose composite references all resolve and form an
\* acyclic composition, idl_accounts returns, and the children of every
\* level of the tree are in the declaration order of the fields.
C9_DeclarationOrder ==
  (pc = "returned"
     /\ AcyclicAndResolved(accounts_strct[1], accs[1], {accounts_strct[1].ident}))
    => /\ ~Failed(idl_accs[1].err)
       /\ InDeclarationOrder(accounts_strct[1], accs[1], idl_accs[1].v)

\* a tree returned for fields declared in another order than the sorted
\* one, at the root and in a nested group
C9_Witness ==
  /\ pc = "returned"
  /\ AcyclicAndResolved(accounts_strct[1], accs[1], {accounts_strct[1].ident})
  /\ ~Failed(idl_accs[1].err)
  /\ \E i \in 1..(Len(idl_accs[1].v) - 1) :
        StrLess(idl_accs[1].v[i + 1].name, idl_accs[1].v[i].name)
  /\ \E i \in 1..Len(idl_accs[1].v) :
        /\ idl_accs[1].v[i].k = "accounts"
        /\ Len(idl_accs[1].v[i].accounts) >= 2
        /\ StrLess(idl_accs[1].v[i].accounts[2].name, idl_accs[1].v[i].accounts[1].name)

\* ------------------------------------------------------------------------
\* Claims about parse
\* ------------------------------------------------------------------------
Range(f) == { f[i] : i \in DOMAIN f }
Count(seq, x) == Cardinality({ i \in DOMAIN seq : seq[i] = x })
CountNamed(seq, n) == Cardinality({ i \in DOMAIN seq : seq[i].name = n })

Done == pc = "done"
ReturnedIdl == pc = "done" /\ result.status = "Ok(Some)"
Idl == result.idl[1]
\* the five sorted categories of the returned document
Categories ==
  << Idl.instructions, Idl.types, Idl.accounts,
     IF Idl.events = <<>> THEN <<>> ELSE Idl.events[1], Idl.constants >>

\* the root modules carrying the "program" tag at least once / exactly once
ProgramTagged == { i \in 1..Len(ctx.mods) : attrs_count(ctx.mods[i].attrs, {"program"}) >= 1 }
ProgramTaggedOnce == { i \in 1..Len(ctx.mods) : attrs_count(ctx.mods[i].attrs, {"program"}) = 1 }
SafetyPassed == opts.safety_checks => ctx.safe

\* C1 as stated: with zero, or two or more, root modules tagged "program",
\* parse returns Ok(None), whatever else the tree contains.
C1_AbsentWheneverNotOneTagged ==
  (Done /\ Cardinality(ProgramTagged) # 1) => result = OkNone

\* C1 (amended): for a tree that passes the safety checks when they are
\* requested, if the number of root modules carrying the "program" tag
\* exactly once is zero or is two or more, parse returns Ok(None).
C1_AbsentDocument ==
  (Done /\ SafetyPassed /\ Cardinality(ProgramTaggedOnce) # 1) => result = OkNone

C1_Witness ==
  Done /\ result = OkNone /\ Cardinality(ProgramTaggedOnce) >= 2

\* C2: in the returned document every adjacent pair (a, b) of each of
\* instructions, types, accounts, events and constants has a.name <= b.name
\* in the case-sensitive order of strings.
C2_Sorted ==
  ReturnedIdl =>
    \A c \in 1..Len(Categories) :
       \A i \in 1..(Len(Categories[c]) - 1) :
          StrLeq(Categories[c][i].name, Categories[c][i + 1].name)

\* a document whose types were extracted in another order than the sorted one
C2_Witness ==
  /\ ReturnedIdl
  /\ Len(Idl.types) >= 2
  /\ Idl.types # types_of(ty_defs, {}, <<>>, <<>>)
  /\ \E i \in 1..(Len(ty_defs) - 1) : StrLess(ty_defs[i + 1].name, ty_defs[i].name)

\* the names of the structs tagged account or associated
AccountTaggedNames ==
  { ctx.structs[i].ident :
      i \in { j \in 1..Len(ctx.structs) :
                attrs_count(ctx.structs[j].attrs, {"account", "associated"}) >= 1 } }
EventNames == { events[i].name : i \in 1..Len(events) }
ErrorNames == { error[i].name : i \in 1..Len(error) }

NoErrorNameInTypesOrAccounts ==
  \A d \in Range(Idl.types) \cup Range(Idl.accounts) : d.name \notin ErrorNames
NoEventNameInTypes == \A d \in Range(Idl.types) : d.name \notin EventNames
OthersInTypes ==
  \A d \in Range(ty_defs) :
     (d.name \notin AccountTaggedNames \cup ErrorNames \cup EventNames)
       => Count(Idl.types, d) = Count(ty_defs, d)

\* C3 as stated: no definition of types or accounts has the error enum's
\* name; every extracted definition named as an account-tagged struct is in
\* accounts and not in types; no definition of types has the name of an
\* event; every other extracted definition is in types.
C3_PartitionAsStated ==
  ReturnedIdl =>
    /\ NoErrorNameInTypesOrAccounts
    /\ \A d \in Range(ty_defs) :
          d.name \in AccountTaggedNames
            => Count(Idl.accounts, d) = Count(ty_defs, d) /\ Count(Idl.types, d) = 0
    /\ NoEventNameInTypes
    /\ OthersInTypes

\* C3 (amended): as stated, except that an extracted definition named as
\* an account-tagged struct is in accounts only when its name is not the
\* error enum's name; one that has the error enum's name is in neither.
C3_Partition ==
  ReturnedIdl =>
    /\ NoErrorNameInTypesOrAccounts
    /\ \A d \in Range(ty_defs) :
          (d.name \in AccountTaggedNames /\ d.name \notin ErrorNames)
            => Count(Idl.accounts, d) = Count(ty_defs, d) /\ Count(Idl.types, d) = 0
    /\ NoEventNameInTypes
    /\ OthersInTypes

\* a document made from a definition that has both the error enum's name
\* and the name of an account struct, and from one that has only the
\* latter
C3_Witness ==
  /\ ReturnedIdl
  /\ \E d \in Range(ty_defs) : d.name \in AccountTaggedNames \cap ErrorNames
  /\ \E d \in Range(ty_defs) : d.name \in AccountTaggedNames \ ErrorNames

\* C4: in the returned document no two entries of a category have the
\* same name, for every tree.
C4_UniqueNames ==
  ReturnedIdl =>
    \A c \in 1..Len(Categories) :
       \A i, j \in 1..Len(Categories[c]) :
          i # j => Categories[c][i].name # Categories[c][j].name

\* the enums carrying the error_code tag
ErrorTagged == { i \in 1..Len(ctx.enums) : attrs_count(ctx.enums[i].attrs, {"error_code"}) >= 1 }

\* C8: with more than one declaration carrying an error_code tag and
\* exactly one program module, the extraction fails fatally.
C8_SeveralErrorEnumsFatal ==
  (Done /\ Cardinality(ErrorTagged) > 1 /\ Cardinality(ProgramTaggedOnce) = 1)
    => result.status \in {"Err", "panic"}

Unpacked == <<"U", "n", "p", "a", "c", "k", "e", "d">>
TypesAndAccounts == Idl.types \o Idl.accounts

\* the structs whose fields are all positional
PositionalStructIndexes ==
  { i \in 1..Len(ctx.structs) : ctx.structs[i].fields.k = "unnamed" }

\* C10 as stated: whatever its tags, no definition with the name of a
\* struct with positional fields, and none with that name followed by
\* Unpacked, is in the types or accounts of a returned document.
C10_NoDefinitionWithThatName ==
  ReturnedIdl =>
    \A i \in PositionalStructIndexes :
       \A d \in Range(TypesAndAccounts) :
          d.name \notin {ctx.structs[i].ident, ctx.structs[i].ident \o Unpacked}

\* the number of declarations, other than structs with positional fields,
\* from which a definition named n can be made: the named-field structs
\* and the enums named n, and the named-field structs whose Unpacked
\* duplicate is named n
OtherSources(n) ==
  Cardinality({ i \in 1..Len(ctx.structs) :
                  ctx.structs[i].fields.k = "named" /\ ctx.structs[i].ident = n })
  + Cardinality({ i \in 1..Len(ctx.enums) : ctx.enums[i].ident = n })
  + Cardinality({ i \in 1..Len(ctx.structs) :
                    /\ ctx.structs[i].fields.k = "named"
                    /\ ctx.structs[i].ident \o Unpacked = n })

\* C10 (amended): whatever its tags, a struct with positional fields
\* contributes no definition and no Unpacked duplicate to the types or
\* accounts of a returned document: a definition with its name, or with
\* its name followed by Unpacked, is there only as often as other
\* declarations (named-field structs, enums) of the tree produce one.
C10_PositionalContributesNothing ==
  ReturnedIdl =>
    \A i \in PositionalStructIndexes :
       \A n \in {ctx.structs[i].ident, ctx.structs[i].ident \o Unpacked} :
          CountNamed(TypesAndAccounts, n) <= OtherSources(n)

\* a document returned for a tree holding a public struct with positional
\* fields that is tagged serializable and unpackable
C10_Witness ==
  /\ ReturnedIdl
  /\ \E i \in PositionalStructIndexes :
        /\ ctx.structs[i].pub
        /\ serializable(ctx.structs[i].attrs)
        /\ unpackable(ctx.structs[i].attrs)
        /\ OtherSources(ctx.structs[i].ident) = 0

\* the positions of the integer constants that another constant of the
\* same name and type contradicts, and their names
AmbiguousIndexes ==
  { i \in 1..Len(ctx.consts) :
      /\ IsIntegerConst(ctx.consts[i])
      /\ \E j \in 1..Len(ctx.consts) :
            /\ ctx.consts[j].ident = ctx.consts[i].ident
            /\ ctx.consts[j].ty = ctx.consts[i].ty
            /\ ctx.consts[j].expr # ctx.consts[i].expr }
AmbiguousNames == { ctx.consts[i].ident : i \in AmbiguousIndexes }

CrateWideUnique == "Crate wide unique name required for array size const."

LengthToken(l) ==
  IF l.k = "cast" THEN l.text \o <<"a", "s", "u", "s", "i", "z", "e">> ELSE l.text

\* no integer constant declared before the first ambiguous constant named
\* n has a name that ends n or ends the length token
NotRewrittenBefore(n, token) ==
  LET first == MinOf({ i \in AmbiguousIndexes : ctx.consts[i].ident = n })
  IN \A k \in 1..(first - 1) :
        IsIntegerConst(ctx.consts[k])
          => ~ends_with(token, ctx.consts[k].ident) /\ ~ends_with(n, ctx.consts[k].ident)

\* the fields of the public serializable named-field structs whose type is
\* a one-dimensional array with an ambiguous constant as its length
AmbiguousArrayFields ==
  { f \in UNION { Range(ctx.structs[i].fields.list) :
                    i \in { j \in 1..Len(ctx.structs) :
                              /\ serializable(ctx.structs[j].attrs)
                              /\ ctx.structs[j].pub
                              /\ ctx.structs[j].fields.k = "named" } } :
      /\ f.ty.k = "array"
      /\ f.ty.elem.k = "path"
      /\ f.ty.len.k \in {"name", "cast"}
      /\ f.ty.len.text \in AmbiguousNames
      /\ NotRewrittenBefore(f.ty.len.text, LengthToken(f.ty.len)) }

AcceptedStructs ==
  { i \in 1..Len(ctx.structs) :
      /\ ctx.structs[i].pub
      /\ serializable(ctx.structs[i].attrs)
      /\ ctx.structs[i].fields.k = "named" }
AcceptedEnums ==
  { i \in 1..Len(ctx.enums) : ctx.enums[i].pub /\ serializable(ctx.enums[i].attrs) }

\* the struct carries a derive tag that names Unpackable
TaggedUnpackable(st) ==
  \E a \in Range(st.attrs) :
     a.path[Len(a.path)] = "derive" /\ "Unpackable" \in Range(a.tokens)

\* the number of definitions named n that the accepted declarations of the
\* tree yield: one per struct or enum named n, one per unpackable struct
\* whose name followed by Unpacked is n
Yielded(n) ==
  Cardinality({ i \in AcceptedStructs : ctx.structs[i].ident = n })
  + Cardinality({ i \in AcceptedEnums : ctx.enums[i].ident = n })
  + Cardinality({ i \in AcceptedStructs :
                    /\ TaggedUnpackable(ctx.structs[i])
                    /\ ctx.structs[i].ident \o Unpacked = n })

Blank(d) == [d EXCEPT !.name = <<>>, !.docs = <<>>]

\* defs holds a definition named as the struct and one named as its
\* Unpacked duplicate that differ in name and docs only
HasPair(defs, st) ==
  \E j, k \in DOMAIN defs :
     /\ defs[j].name = st.ident
     /\ defs[k].name = st.ident \o Unpacked
     /\ defs[k].docs # defs[j].docs
     /\ Blank(defs[k]) = Blank(defs[j])

\* C11 as stated: in a returned document a public serializable named-field
\* struct Foo tagged unpackable yields exactly two definitions, Foo and
\* FooUnpacked, that differ in name and docs only; one not tagged
\* unpackable yields no Unpacked duplicate.
C11_TwoDefinitionsInOutput ==
  ReturnedIdl =>
    \A i \in AcceptedStructs :
       /\ CountNamed(TypesAndAccounts, ctx.structs[i].ident \o Unpacked)
            = Yielded(ctx.structs[i].ident \o Unpacked)
       /\ TaggedUnpackable(ctx.structs[i])
            => /\ CountNamed(TypesAndAccounts, ctx.structs[i].ident)
                    = Yielded(ctx.structs[i].ident)
               /\ HasPair(TypesAndAccounts, ctx.structs[i])

\* the partition keeps the definition d: its name is not the error enum's,
\* and it is the name of an account-tagged struct or not the name of an event
Kept(d) ==
  /\ d.name \notin ErrorNames
  /\ d.name \in AccountTaggedNames \/ d.name \notin EventNames

\* C11 (amended): when a document is returned, the type extractor has
\* yielded, for a public serializable named-field struct Foo tagged
\* unpackable, exactly the two definitions Foo and FooUnpacked, differing
\* in name and docs only, and no Unpacked duplicate for a struct not tagged
\* unpackable; each of them is in the types or accounts of the document
\* unless the partition drops it (its name is the error enum's name, or the
\* name of an event and of no account-tagged struct).
C11_UnpackedDuplicate ==
  ReturnedIdl =>
    /\ \A i \in AcceptedStructs :
          /\ CountNamed(ty_defs, ctx.structs[i].ident \o Unpacked)
               = Yielded(ctx.structs[i].ident \o Unpacked)
          /\ TaggedUnpackable(ctx.structs[i])
               => /\ CountNamed(ty_defs, ctx.structs[i].ident)
                       = Yielded(ctx.structs[i].ident)
                  /\ HasPair(ty_defs, ctx.structs[i])
    /\ \A d \in Range(ty_defs) :
          Count(TypesAndAccounts, d) = IF Kept(d) THEN Count(ty_defs, d) ELSE 0

\* a document returned for an unpackable struct that is an event: its
\* duplicate is in types, the struct is in neither types nor accounts
C11_Witness ==
  /\ ReturnedIdl
  /\ \E i \in AcceptedStructs :
        /\ TaggedUnpackable(ctx.structs[i])
        /\ ctx.structs[i].ident \in EventNames
        /\ CountNamed(Idl.types, ctx.structs[i].ident \o Unpacked) = 1
        /\ CountNamed(TypesAndAccounts, ctx.structs[i].ident) = 0
        /\ HasPair(ty_defs, ctx.structs[i])

\* ------------------------------------------------------------------------
\* Claims about no_docs
\* ------------------------------------------------------------------------
\* no account descriptor of the tree items carries docs
RECURSIVE NoAccountDocs(_)
NoAccountDocs(items) ==
  \A i \in 1..Len(items) :
     IF items[i].k = "accounts" THEN NoAccountDocs(items[i].accounts)
     ELSE items[i].docs = <<>>

\* the fields of the definition d that carry docs: those of a struct and
\* those of the named-field variants of an enum
DocumentedFields(d) ==
  IF d.ty.k = "struct" THEN Range(d.ty.fields)
  ELSE UNION { Range(v.fields[1].fields) :
                 v \in { w \in Range(d.ty.variants) :
                           w.fields # <<>> /\ w.fields[1].k = "named" } }

NoDefinitionDocs(d) == d.docs = <<>> /\ \A f \in DocumentedFields(d) : f.docs = <<>>

NoDocsOutsideDefinitions ==
  /\ Idl.docs = <<>>
  /\ \A ix \in Range(Idl.instructions) :
        /\ ix.docs = <<>>
        /\ \A a \in Range(ix.args) : a.docs = <<>>
        /\ NoAccountDocs(ix.accounts)

\* C12: a document returned with no_docs set has no docs: not on the
\* program, an instruction, an argument, an account descriptor, a type or
\* account definition (Unpacked duplicates included) or a field of one.
C12_NoDocsAnywhere ==
  (ReturnedIdl /\ opts.no_docs)
    => /\ NoDocsOutsideDefinitions
       /\ \A d \in Range(TypesAndAccounts) : NoDefinitionDocs(d)

\* ------------------------------------------------------------------------
\* Claims about the declarations that are not public
\* ------------------------------------------------------------------------
\* the tree c without its structs and enums that are not public
PublicOnly(c) ==
  [c EXCEPT !.structs = SelectSeq(@, LAMBDA st : st.pub),
            !.enums = SelectSeq(@, LAMBDA enm : enm.pub)]

\* some step of the extraction fails on the tree c
FailsOn(c) ==
  \/ opts.safety_checks /\ ~c.safe
  \/ /\ parse_program_mod(c) # <<>>
     /\ \/ ~parse_program_mod(c)[1].program.ok
        \/ Failed(parse_account_derives(c).err)
        \/ Failed(parse_error_enum(c).err)
        \/ Failed(idl_instructions(c, parse_program_mod(c)[1].program,
                                   parse_account_derives(c).v,
                                   opts.seeds_feature, opts.no_docs).err)
        \/ Failed(idl_events(c).err)
        \/ Failed(parse_ty_defs(c, opts.no_docs).err)
        \/ Failed(parse_accounts(c).err)
        \/ Failed(idl_consts(c).err)

PrivateDeclarations ==
  { i \in 1..Len(ctx.structs) : ~ctx.structs[i].pub }
    \cup { Len(ctx.structs) + i : i \in { j \in 1..Len(ctx.enums) : ~ctx.enums[j].pub } }

\* C13: a struct or an enum that is not public is a silent exclusion,
\* whatever its tags, tag arguments and fields: it produces no type
\* definition (the extracted definitions are those of the tree without
\* it) and it never makes the extraction fail (an extraction that fails,
\* fails on the tree without it too).
C13_PrivateIsSilent ==
  (Done /\ PrivateDeclarations # {})
    => /\ ReturnedIdl => ty_defs = parse_ty_defs(PublicOnly(ctx), opts.no_docs).v
       /\ result.status \in {"Err", "panic"} => FailsOn(PublicOnly(ctx))

\* ------------------------------------------------------------------------
\* Claims about the canonical type resolver
\* ------------------------------------------------------------------------
ConstsNamed(consts, name) == { j \in 1..Len(consts) : consts[j].ident = name }

\* name is the name of exactly one constant of the tree, of integer type
UniqueIntegerConst(consts, name) ==
  /\ Cardinality(ConstsNamed(consts, name)) = 1
  /\ \A j \in ConstsNamed(consts, name) : IsIntegerConst(consts[j])

ValueOf(consts, name) == consts[CHOOSE j \in ConstsNamed(consts, name) : TRUE].expr

\* t is a fixed-size array whose length, in every dimension, names a
\* uniquely-named integer constant (verbatim or as `NAME as usize`)
RECURSIVE ConstBackedArray(_, _)
ConstBackedArray(consts, t) ==
  /\ t.k = "array"
  /\ t.len.k \in {"name", "cast"}
  /\ UniqueIntegerConst(consts, t.len.text)
  /\ t.elem.k = "path" \/ ConstBackedArray(consts, t.elem)

\* the text of t with every length replaced by its constant's value
RECURSIVE SubstitutedText(_, _)
SubstitutedText(consts, t) ==
  IF t.k = "array"
  THEN <<"[">> \o SubstitutedText(consts, t.elem) \o <<";">>
         \o ValueOf(consts, t.len.text) \o <<"]">>
  ELSE t.name

\* C5: for a fixed-size array whose length tokens name uniquely-named
\* integer constants, the text handed to the type parser carries the
\* constants' literal values in place of the lengths and no constant name,
\* whatever other constants the tree holds and in whatever order.
C5_ArrayLengthSubstituted ==
  (pc = "resolved" /\ ConstBackedArray(ctx.consts, ty))
    => /\ ~Failed(idl_ty[1].err)
       /\ retain_non_whitespace(idl_ty[1].text) = SubstitutedText(ctx.consts, ty)

Outcome(r) == [err |-> r.err, ty |-> r.ty]

\* C7: to_idl_type of Box<T> yields the same IdlType, or the same failure,
\* as to_idl_type of T, for every T and every set of constants.
C7_BoxTransparent ==
  pc = "resolved"
    => Outcome(to_idl_type(ctx.consts, TBox(ty))) = Outcome(idl_ty[1])


====
